---- MODULE Spec2Model ----
(***************************************************************************)
(* Box and Marble logic puzzle (box-and-marble-script.js).                 *)
(*                                                                         *)
(* The model follows the script: the GameState object, the puzzle          *)
(* generator (bounded randomized retry, then a hardcoded fallback), the    *)
(* evaluator (calculateResults / getCorrectLabelForBox) and the event      *)
(* handlers that drive them (check box, label selection, submit, Reset     *)
(* Puzzle, Play Again).                                                    *)
(*                                                                         *)
(* JavaScript strings are kept as TLA+ strings in the state; the string    *)
(* operations of the script (toLowerCase, replace, split) are computed on  *)
(* their character sequences, see Chars.                                   *)
(***************************************************************************)
EXTENDS Integers, Sequences, FiniteSets, TLC

VARIABLES
    boxes,                   \* GameState.boxes: sequence of [id, contents, label]
    selectedBox,             \* GameState.selectedBox: 0 (null) or the slot of the box
    hasCheckedBox,           \* GameState.hasCheckedBox
    userLabelSelections,     \* GameState.userLabelSelections: box id -> label or ""
    dropdownOptions,         \* box id -> labels offered by that box's <select>
    submitDisabled,          \* #submit-answers-btn .disabled
    labelSelectionDisplayed, \* #label-selection-container is shown
    resultDisplayed,         \* #result-display is shown
    results,                 \* what the shown result panel was rendered from
    revealedMarble,          \* marble shown in the detail display, "" = placeholder
    pc,                      \* "loaded" | "generating" | "idle"
    attempts,                \* local `attempts` of generatePuzzleConfiguration
    usedFallback,            \* the running/last generation ended in setFallbackConfiguration
    handler,                 \* the handler that called generatePuzzleConfiguration last
    boxesBefore,             \* GameState.boxes as the running handler found them
    attemptContents,         \* shuffledContents of the latest tryGenerateValidConfiguration
    attemptLabels            \* shuffledLabels of the latest tryGenerateValidConfiguration

vars == <<boxes, selectedBox, hasCheckedBox, userLabelSelections, dropdownOptions,
          submitDisabled, labelSelectionDisplayed, resultDisplayed, results,
          revealedMarble, pc, attempts, usedFallback, handler, boxesBefore,
          attemptContents, attemptLabels>>

----------------------------------------------------------------------------
(* GAME CONFIGURATION & CONSTANTS *)

BOX_LABELS == <<"White and White", "Red and Red", "Red and White">>

BOX_CONTENTS == <<"white-white", "red-red", "red-white">>

MAX_ATTEMPTS == 50

BOX_IDS == <<"matchbox-1", "matchbox-2", "matchbox-3">>

Range(s) == {s[i] : i \in DOMAIN s}

----------------------------------------------------------------------------
(* JavaScript string operations, on character sequences *)

\* The characters of the string values the script handles.
Chars(s) ==
    CASE s = "White and White" ->
           <<"W","h","i","t","e"," ","a","n","d"," ","W","h","i","t","e">>
      [] s = "Red and Red" ->
           <<"R","e","d"," ","a","n","d"," ","R","e","d">>
      [] s = "Red and White" ->
           <<"R","e","d"," ","a","n","d"," ","W","h","i","t","e">>
      [] s = "white-white" -> <<"w","h","i","t","e","-","w","h","i","t","e">>
      [] s = "red-red" -> <<"r","e","d","-","r","e","d">>
      [] s = "red-white" -> <<"r","e","d","-","w","h","i","t","e">>
      [] s = "white" -> <<"w","h","i","t","e">>
      [] s = "red" -> <<"r","e","d">>
      [] s = " and " -> <<" ","a","n","d"," ">>
      [] s = "-" -> <<"-">>
      [] s = "" -> <<>>

\* String.prototype.toLowerCase
ToLowerCase(cs) ==
    [i \in 1..Len(cs) |->
        CASE cs[i] = "W" -> "w"
          [] cs[i] = "R" -> "r"
          [] OTHER -> cs[i]]

\* Positions at which pat occurs in cs.
Occurrences(cs, pat) ==
    {i \in 1..(Len(cs) - Len(pat) + 1) : SubSeq(cs, i, i + Len(pat) - 1) = pat}

Min(S) == CHOOSE x \in S : \A y \in S : x <= y

\* String.prototype.replace with a string pattern: the first occurrence only.
Replace(cs, pat, rep) ==
    IF Occurrences(cs, pat) = {} THEN cs
    ELSE LET i == Min(Occurrences(cs, pat))
         IN  SubSeq(cs, 1, i - 1) \o rep \o SubSeq(cs, i + Len(pat), Len(cs))

\* String.prototype.split with a one-character separator.
RECURSIVE Split(_, _)
Split(cs, sep) ==
    IF Occurrences(cs, <<sep>>) = {} THEN <<cs>>
    ELSE LET i == Min(Occurrences(cs, <<sep>>))
         IN  <<SubSeq(cs, 1, i - 1)>> \o Split(SubSeq(cs, i + 1, Len(cs)), sep)

----------------------------------------------------------------------------
(* GAME LOGIC & VALIDATION *)

\* checkContentsMatchLabel without the toLowerCase.
checkContentsMatchLabelCaseSensitive(box) ==
    LET normalizedLabel == Replace(Chars(box.label), Chars(" and "), Chars("-"))
    IN  normalizedLabel = Chars(box.contents)

\* checkContentsMatchLabel: the label, lower-cased and with ' and ' replaced by
\* '-', is the contents string.
checkContentsMatchLabel(box) ==
    LET normalizedLabel == Replace(ToLowerCase(Chars(box.label)), Chars(" and "), Chars("-"))
    IN  normalizedLabel = Chars(box.contents)

\* getCorrectLabelForBox reading the label the box displays.
getCorrectLabelFromDisplayedLabel(box) == box.label

\* getCorrectLabelForBox: contentsToLabel[box.contents] || ''
getCorrectLabelForBox(box) ==
    CASE box.contents = "white-white" -> "White and White"
      [] box.contents = "red-red" -> "Red and Red"
      [] box.contents = "red-white" -> "Red and White"
      [] OTHER -> ""

----------------------------------------------------------------------------
(* PUZZLE GENERATION *)

\* A sort that leaves the first element of arr where it is.
ShufflesKeepingFirst(arr) ==
    {p \in [DOMAIN arr -> Range(arr)] :
        /\ \A x \in Range(arr) : \E i \in DOMAIN p : p[i] = x
        /\ p[1] = arr[1]}

\* The outcomes of [...arr].sort(() => Math.random() - 0.5): the orders of arr.
Shuffles(arr) ==
    {p \in [DOMAIN arr -> Range(arr)] : \A x \in Range(arr) : \E i \in DOMAIN p : p[i] = x}

\* assignContentToBox: the first content of shuffledContents not yet used.
\* Returns the value returned, the box and the used set as the call leaves them.
assignContentToBox(box, shuffledContents, usedContents) ==
    LET free == {i \in DOMAIN shuffledContents : shuffledContents[i] \notin usedContents}
    IN  IF free = {}
        THEN [ok |-> FALSE, box |-> box, used |-> usedContents]
        ELSE LET content == shuffledContents[Min(free)]
             IN  [ok |-> TRUE,
                  box |-> [box EXCEPT !.contents = content],
                  used |-> usedContents \cup {content}]

\* assignLabelToBox without the usedLabels test.
assignLabelIgnoringUsed(box, shuffledLabels, usedLabels) ==
    LET fits == {i \in DOMAIN shuffledLabels :
                    ~checkContentsMatchLabel(
                         [contents |-> box.contents, label |-> shuffledLabels[i]])}
    IN  IF fits = {}
        THEN [ok |-> FALSE, box |-> box, used |-> usedLabels]
        ELSE LET label == shuffledLabels[Min(fits)]
             IN  [ok |-> TRUE,
                  box |-> [box EXCEPT !.label = label],
                  used |-> usedLabels \cup {label}]

\* assignLabelToBox scanning shuffledLabels from its end: the last fitting label.
assignLabelToBoxLastFit(box, shuffledLabels, usedLabels) ==
    LET fits == {i \in DOMAIN shuffledLabels :
                    /\ shuffledLabels[i] \notin usedLabels
                    /\ ~checkContentsMatchLabel(
                           [contents |-> box.contents, label |-> shuffledLabels[i]])}
    IN  IF fits = {}
        THEN [ok |-> FALSE, box |-> box, used |-> usedLabels]
        ELSE LET label == shuffledLabels[CHOOSE i \in fits : \A j \in fits : j <= i]
             IN  [ok |-> TRUE,
                  box |-> [box EXCEPT !.label = label],
                  used |-> usedLabels \cup {label}]

\* assignLabelToBox: the first label of shuffledLabels that is not yet used and
\* does not match the box's contents.
assignLabelToBox(box, shuffledLabels, usedLabels) ==
    LET fits == {i \in DOMAIN shuffledLabels :
                    /\ shuffledLabels[i] \notin usedLabels
                    /\ ~checkContentsMatchLabel(
                           [contents |-> box.contents, label |-> shuffledLabels[i]])}
    IN  IF fits = {}
        THEN [ok |-> FALSE, box |-> box, used |-> usedLabels]
        ELSE LET label == shuffledLabels[Min(fits)]
             IN  [ok |-> TRUE,
                  box |-> [box EXCEPT !.label = label],
                  used |-> usedLabels \cup {label}]

\* The for-of loop of tryGenerateValidConfiguration from slot i on.
RECURSIVE AssignFrom(_, _, _, _, _, _)
AssignFrom(i, bs, shuffledContents, shuffledLabels, usedContents, usedLabels) ==
    IF i > Len(bs) THEN [ok |-> TRUE, boxes |-> bs]
    ELSE LET c == assignContentToBox(bs[i], shuffledContents, usedContents)
         IN  IF ~c.ok THEN [ok |-> FALSE, boxes |-> [bs EXCEPT ![i] = c.box]]
             ELSE LET l == assignLabelToBox(c.box, shuffledLabels, usedLabels)
                  IN  IF ~l.ok THEN [ok |-> FALSE, boxes |-> [bs EXCEPT ![i] = l.box]]
                      ELSE AssignFrom(i + 1, [bs EXCEPT ![i] = l.box],
                                      shuffledContents, shuffledLabels, c.used, l.used)

\* tryGenerateValidConfiguration with the two shuffles it drew: the value
\* returned and GameState.boxes as the call leaves them.
tryGenerateValidConfiguration(bs, shuffledContents, shuffledLabels) ==
    LET cleared == [i \in DOMAIN bs |-> [bs[i] EXCEPT !.contents = "", !.label = ""]]
    IN  AssignFrom(1, cleared, shuffledContents, shuffledLabels, {}, {})

\* setFallbackConfiguration with the second box's contents repeating the first's.
setFallbackRepeatedContents(bs) ==
    [bs EXCEPT ![1].contents = "white-white", ![1].label = "Red and Red",
               ![2].contents = "white-white", ![2].label = "Red and White",
               ![3].contents = "red-white",   ![3].label = "White and White"]

\* setFallbackConfiguration without the write of the third box's label.
setFallbackMissingLabel(bs) ==
    [bs EXCEPT ![1].contents = "white-white", ![1].label = "Red and Red",
               ![2].contents = "red-red",     ![2].label = "Red and White",
               ![3].contents = "red-white"]

\* setFallbackConfiguration
setFallbackConfiguration(bs) ==
    [bs EXCEPT ![1].contents = "white-white", ![1].label = "Red and Red",
               ![2].contents = "red-red",     ![2].label = "Red and White",
               ![3].contents = "red-white",   ![3].label = "White and White"]

----------------------------------------------------------------------------
(* ANSWER CHECKING & RESULTS *)

\* calculateResults comparing each selection with the label the box displays.
RECURSIVE CalculateFromDisplayedLabel(_, _, _, _)
CalculateFromDisplayedLabel(i, bs, selections, res) ==
    IF i > Len(bs) THEN res
    ELSE LET box == bs[i]
             userSelection == selections[box.id]
             correctLabel == getCorrectLabelForBox(box)
             isCorrect == userSelection = box.label
             detail == [boxId |-> box.id,
                        boxNumber |-> i,
                        userSelection |-> userSelection,
                        correctLabel |-> correctLabel,
                        actualContents |-> box.contents,
                        isCorrect |-> isCorrect]
         IN  CalculateFromDisplayedLabel(i + 1, bs, selections,
                 [res EXCEPT !.correct = IF isCorrect THEN @ + 1 ELSE @,
                             !.details = Append(@, detail)])

\* calculateResults counting every box, matched or not.
RECURSIVE CalculateFromCountingAll(_, _, _, _)
CalculateFromCountingAll(i, bs, selections, res) ==
    IF i > Len(bs) THEN res
    ELSE LET box == bs[i]
             userSelection == selections[box.id]
             correctLabel == getCorrectLabelForBox(box)
             isCorrect == userSelection = correctLabel
             detail == [boxId |-> box.id,
                        boxNumber |-> i,
                        userSelection |-> userSelection,
                        correctLabel |-> correctLabel,
                        actualContents |-> box.contents,
                        isCorrect |-> isCorrect]
         IN  CalculateFromCountingAll(i + 1, bs, selections,
                 [res EXCEPT !.correct = @ + 1,
                             !.details = Append(@, detail)])

\* calculateResults putting each detail record in front of the earlier ones.
RECURSIVE CalculateFromPrepending(_, _, _, _)
CalculateFromPrepending(i, bs, selections, res) ==
    IF i > Len(bs) THEN res
    ELSE LET box == bs[i]
             userSelection == selections[box.id]
             correctLabel == getCorrectLabelForBox(box)
             isCorrect == userSelection = correctLabel
             detail == [boxId |-> box.id,
                        boxNumber |-> i,
                        userSelection |-> userSelection,
                        correctLabel |-> correctLabel,
                        actualContents |-> box.contents,
                        isCorrect |-> isCorrect]
         IN  CalculateFromPrepending(i + 1, bs, selections,
                 [res EXCEPT !.correct = IF isCorrect THEN @ + 1 ELSE @,
                             !.details = <<detail>> \o @])

\* The forEach of calculateResults from slot i on: one detail record per box,
\* results.correct incremented for each match.
RECURSIVE CalculateFrom(_, _, _, _)
CalculateFrom(i, bs, selections, res) ==
    IF i > Len(bs) THEN res
    ELSE LET box == bs[i]
             userSelection == selections[box.id]
             correctLabel == getCorrectLabelForBox(box)
             isCorrect == userSelection = correctLabel
             detail == [boxId |-> box.id,
                        boxNumber |-> i,
                        userSelection |-> userSelection,
                        correctLabel |-> correctLabel,
                        actualContents |-> box.contents,
                        isCorrect |-> isCorrect]
         IN  CalculateFrom(i + 1, bs, selections,
                 [res EXCEPT !.correct = IF isCorrect THEN @ + 1 ELSE @,
                             !.details = Append(@, detail)])

\* calculateResults
calculateResults(bs, selections) ==
    CalculateFrom(1, bs, selections,
                  [correct |-> 0, total |-> Len(bs), details |-> <<>>])

\* The result panel while it is hidden.
NoResults == [correct |-> 0, total |-> 0, details |-> <<>>]

----------------------------------------------------------------------------
(* LABEL SELECTION FUNCTIONS *)

\* updateDropdownOptions offering every label in every dropdown.
updateDropdownOptionsUnfiltered(selections) ==
    [id \in Range(BOX_IDS) |-> Range(BOX_LABELS)]

\* updateDropdownOptions: each <select> offers the labels no dropdown has
\* selected, and its own current selection.
updateDropdownOptions(selections) ==
    LET selectedValues == {selections[id] : id \in DOMAIN selections} \ {""}
    IN  [id \in DOMAIN selections |->
            {label \in Range(BOX_LABELS) :
                label \notin selectedValues \/ label = selections[id]}]

\* updateSubmitButtonState: the value given to submitButton.disabled
updateSubmitButtonState(selections) ==
    LET allSelected == \A id \in DOMAIN selections : selections[id] # ""
    IN  ~allSelected

\* getMarbleVisualization showing a marble of either colour whatever the contents.
getMarbleVisualizationAnyColour(contents) ==
    {"white", "red"}

\* The marbles getMarbleVisualization may show for contents: one of
\* contents.split('-'), picked at random.
getMarbleVisualization(contents) ==
    LET marbles == Split(Chars(contents), "-")
    IN  {m \in {"white", "red", ""} : \E randomIndex \in DOMAIN marbles :
                                         Chars(m) = marbles[randomIndex]}

----------------------------------------------------------------------------
(* GAME STATE MANAGEMENT *)

EmptySelections == [id \in Range(BOX_IDS) |-> ""]

EmptyBoxes == [i \in DOMAIN BOX_IDS |-> [id |-> BOX_IDS[i], contents |-> "", label |-> ""]]

\* #submit-answers-btn as the page first renders it: disabled, so that nothing
\* can be submitted before a label has been selected.
SubmitInitiallyDisabled == TRUE

\* No handler is running: there are no boxes it found.
NoBoxes == <<>>

\* The state once the script has been evaluated: the GameState literal, the
\* page as index.html renders it, initializeGame not yet run.
Init ==
    /\ boxes = EmptyBoxes
    /\ selectedBox = 0
    /\ hasCheckedBox = FALSE
    /\ userLabelSelections = EmptySelections
    /\ dropdownOptions = [id \in Range(BOX_IDS) |-> {}]
    /\ submitDisabled = SubmitInitiallyDisabled
    /\ labelSelectionDisplayed = FALSE
    /\ resultDisplayed = FALSE
    /\ results = NoResults
    /\ revealedMarble = ""
    /\ pc = "loaded"
    /\ attempts = 0
    /\ usedFallback = FALSE
    /\ handler = ""
    /\ boxesBefore = NoBoxes
    /\ attemptContents = <<>>
    /\ attemptLabels = <<>>

\* GameState.reset() leaving hasCheckedBox as it is.
GameStateResetKeepingChecked ==
    /\ selectedBox' = 0
    /\ UNCHANGED hasCheckedBox
    /\ userLabelSelections' = [id \in Range(BOX_IDS) |-> ""]
    /\ boxes' = [i \in DOMAIN boxes |-> [boxes[i] EXCEPT !.contents = "", !.label = ""]]

\* GameState.reset()
GameStateReset ==
    /\ selectedBox' = 0
    /\ hasCheckedBox' = FALSE
    /\ userLabelSelections' = [id \in Range(BOX_IDS) |-> ""]
    /\ boxes' = [i \in DOMAIN boxes |-> [boxes[i] EXCEPT !.contents = "", !.label = ""]]

----------------------------------------------------------------------------
(* INITIALIZATION and PUZZLE GENERATION steps *)

\* The document's DOMContentLoaded listener: initializeGame begins, and with it
\* generatePuzzleConfiguration (let attempts = 0).
DOMContentLoaded ==
    /\ pc = "loaded"
    /\ pc' = "generating"
    /\ attempts' = 0
    /\ usedFallback' = FALSE
    /\ handler' = "initializeGame"
    /\ boxesBefore' = boxes
    /\ attemptContents' = <<>>
    /\ attemptLabels' = <<>>
    /\ UNCHANGED <<boxes, selectedBox, hasCheckedBox, userLabelSelections,
                   dropdownOptions, submitDisabled, labelSelectionDisplayed,
                   resultDisplayed, results, revealedMarble>>

\* while (attempts <= maxAttempts)
attemptsRemainOffByOne(a) == a <= MAX_ATTEMPTS

\* while (attempts < maxAttempts)
attemptsRemain(a) == a < MAX_ATTEMPTS

\* What initializeGame and resetPuzzle do once generatePuzzleConfiguration has
\* returned: the matchboxes are rebuilt with fresh check buttons and the detail
\* display shows the placeholder; the handler ends.
boardRebuilt ==
    /\ revealedMarble' = ""
    /\ attempts' = 0
    /\ boxesBefore' = NoBoxes
    /\ pc' = "idle"

\* The outcomes of one call of tryGenerateValidConfiguration, over the shuffles
\* Math.random may produce.  The call writes '' to the contents and label of
\* every box before it assigns anything, so what it returns and leaves in
\* GameState.boxes does not depend on what the boxes held before.
attemptOutcomes ==
    {[contents |-> sc, labels |-> sl,
      result |-> tryGenerateValidConfiguration(EmptyBoxes, sc, sl)] :
        sc \in Shuffles(BOX_CONTENTS), sl \in Shuffles(BOX_LABELS)}

\* One iteration of the loop of generatePuzzleConfiguration: an attempt with
\* freshly drawn shuffles; return on success, attempts++ otherwise.
generateAttempt ==
    /\ pc = "generating"
    /\ attemptsRemain(attempts)
    /\ \E try \in attemptOutcomes :
          /\ attemptContents' = try.contents
          /\ attemptLabels' = try.labels
          /\ boxes' = try.result.boxes
          /\ IF try.result.ok
             THEN boardRebuilt
             ELSE /\ attempts' = attempts + 1
                  /\ UNCHANGED <<pc, revealedMarble, boxesBefore>>
    /\ UNCHANGED <<selectedBox, hasCheckedBox, userLabelSelections, dropdownOptions,
                   submitDisabled, labelSelectionDisplayed, resultDisplayed, results,
                   usedFallback, handler>>

\* generatePuzzleConfiguration returning when the loop has run out, without
\* calling setFallbackConfiguration.
generateFallbackSkipped ==
    /\ pc = "generating"
    /\ ~attemptsRemain(attempts)
    /\ usedFallback' = TRUE
    /\ boardRebuilt
    /\ UNCHANGED <<boxes, selectedBox, hasCheckedBox, userLabelSelections, dropdownOptions,
                   submitDisabled, labelSelectionDisplayed, resultDisplayed, results,
                   handler, attemptContents, attemptLabels>>

\* The loop of generatePuzzleConfiguration has run out: setFallbackConfiguration.
generateFallback ==
    /\ pc = "generating"
    /\ ~attemptsRemain(attempts)
    /\ boxes' = setFallbackConfiguration(boxes)
    /\ usedFallback' = TRUE
    /\ boardRebuilt
    /\ UNCHANGED <<selectedBox, hasCheckedBox, userLabelSelections, dropdownOptions,
                   submitDisabled, labelSelectionDisplayed, resultDisplayed, results,
                   handler, attemptContents, attemptLabels>>

----------------------------------------------------------------------------
(* EVENT HANDLERS *)

\* selectMatchbox without the early return on hasCheckedBox.
selectMatchboxUnguarded(i) ==
    /\ pc = "idle"
    /\ hasCheckedBox' = TRUE
    /\ selectedBox' = i
    /\ revealedMarble' \in getMarbleVisualization(boxes[i].contents)
    /\ labelSelectionDisplayed' = TRUE
    /\ dropdownOptions' = updateDropdownOptions(userLabelSelections)
    /\ UNCHANGED <<boxes, userLabelSelections, submitDisabled, resultDisplayed,
                   results, pc, attempts, usedFallback,
                   handler, boxesBefore, attemptContents, attemptLabels>>

\* selectMatchbox(box), box the one in slot i: ignored once a box has been
\* checked; otherwise the box is selected, one of its marbles is shown and the
\* label selection interface is displayed.
selectMatchbox(i) ==
    /\ pc = "idle"
    /\ IF hasCheckedBox
       THEN UNCHANGED vars
       ELSE /\ hasCheckedBox' = TRUE
            /\ selectedBox' = i
            /\ revealedMarble' \in getMarbleVisualization(boxes[i].contents)
            /\ labelSelectionDisplayed' = TRUE
            /\ dropdownOptions' = updateDropdownOptions(userLabelSelections)
            /\ UNCHANGED <<boxes, userLabelSelections, submitDisabled, resultDisplayed,
                           results, pc, attempts, usedFallback,
                   handler, boxesBefore, attemptContents, attemptLabels>>

\* The 'change' listener writing the chosen label onto the box as well.
labelSelectionChangeRelabelling(id, value) ==
    /\ pc = "idle"
    /\ labelSelectionDisplayed
    /\ value \in dropdownOptions[id] \cup {""}
    /\ value # userLabelSelections[id]
    /\ userLabelSelections' = [userLabelSelections EXCEPT ![id] = value]
    /\ dropdownOptions' = updateDropdownOptions(userLabelSelections')
    /\ submitDisabled' = updateSubmitButtonState(userLabelSelections')
    /\ boxes' = [i \in DOMAIN boxes |->
                    IF boxes[i].id = id THEN [boxes[i] EXCEPT !.label = value] ELSE boxes[i]]
    /\ UNCHANGED <<selectedBox, hasCheckedBox, labelSelectionDisplayed,
                   resultDisplayed, results, revealedMarble, pc, attempts, usedFallback,
                   handler, boxesBefore, attemptContents, attemptLabels>>

\* The 'change' listener of the <select> of box id: the user picked `value`,
\* one of the options the dropdown offers or the placeholder.
labelSelectionChange(id, value) ==
    /\ pc = "idle"
    /\ labelSelectionDisplayed
    /\ value \in dropdownOptions[id] \cup {""}
    /\ value # userLabelSelections[id]
    /\ userLabelSelections' = [userLabelSelections EXCEPT ![id] = value]
    /\ dropdownOptions' = updateDropdownOptions(userLabelSelections')
    /\ submitDisabled' = updateSubmitButtonState(userLabelSelections')
    /\ UNCHANGED <<boxes, selectedBox, hasCheckedBox, labelSelectionDisplayed,
                   resultDisplayed, results, revealedMarble, pc, attempts, usedFallback,
                   handler, boxesBefore, attemptContents, attemptLabels>>

\* checkAnswers clearing the selections once they have been scored.
checkAnswersClearingSelections ==
    /\ pc = "idle"
    /\ labelSelectionDisplayed
    /\ ~submitDisabled
    /\ results' = calculateResults(boxes, userLabelSelections)
    /\ resultDisplayed' = TRUE
    /\ userLabelSelections' = EmptySelections
    /\ UNCHANGED <<boxes, selectedBox, hasCheckedBox,
                   dropdownOptions, submitDisabled, labelSelectionDisplayed,
                   revealedMarble, pc, attempts, usedFallback,
                   handler, boxesBefore, attemptContents, attemptLabels>>

\* checkAnswers: the click listener of the submit button.  The listener is
\* attached by displayLabelSelectionInterface, the button belongs to the label
\* selection interface, and a click fires only while the button is not disabled.
checkAnswers ==
    /\ pc = "idle"
    /\ labelSelectionDisplayed
    /\ ~submitDisabled
    /\ results' = calculateResults(boxes, userLabelSelections)
    /\ resultDisplayed' = TRUE
    /\ UNCHANGED <<boxes, selectedBox, hasCheckedBox, userLabelSelections,
                   dropdownOptions, submitDisabled, labelSelectionDisplayed,
                   revealedMarble, pc, attempts, usedFallback,
                   handler, boxesBefore, attemptContents, attemptLabels>>

\* The part resetPuzzle and resetGame share: GameState.reset(), the result and
\* label selection displays hidden, the dropdowns restored, and a new
\* generatePuzzleConfiguration begun.
resetAndRegenerate ==
    /\ GameStateReset
    /\ resultDisplayed' = FALSE
    /\ results' = NoResults
    /\ labelSelectionDisplayed' = FALSE
    /\ dropdownOptions' = updateDropdownOptions(userLabelSelections')
    /\ pc' = "generating"
    /\ attempts' = 0
    /\ usedFallback' = FALSE
    /\ boxesBefore' = boxes
    /\ attemptContents' = <<>>
    /\ attemptLabels' = <<>>
    /\ UNCHANGED <<submitDisabled, revealedMarble>>

\* resetPuzzle: the click listener of the Reset Puzzle button, attached by
\* displayLabelSelectionInterface with the rest of the label selection interface.
resetPuzzle ==
    /\ pc = "idle"
    /\ labelSelectionDisplayed
    /\ handler' = "resetPuzzle"
    /\ resetAndRegenerate

\* resetGame: the click listener of the Play Again button of the result panel.
resetGame ==
    /\ pc = "idle"
    /\ resultDisplayed
    /\ handler' = "resetGame"
    /\ resetAndRegenerate

----------------------------------------------------------------------------
(* Specification *)

generatePuzzleConfiguration == generateAttempt \/ generateFallback

Next ==
    \/ DOMContentLoaded
    \/ generateAttempt
    \/ generateFallback
    \/ \E i \in DOMAIN BOX_IDS : selectMatchbox(i)
    \/ \E id \in Range(BOX_IDS), value \in Range(BOX_LABELS) \cup {""} :
          labelSelectionChange(id, value)
    \/ checkAnswers
    \/ resetPuzzle
    \/ resetGame

Spec == Init /\ [][Next]_vars

\* Every handler runs to completion: a generation that has begun takes its
\* next step.
LiveSpec == Spec /\ WF_vars(generatePuzzleConfiguration)

----------------------------------------------------------------------------
(* Properties *)

Slots == DOMAIN BOX_IDS

\* generatePuzzleConfiguration has returned and its caller has finished.
Returned == pc = "idle"

\* The label that names each kind of contents, written out.
TrueLabelOf(contents) ==
    CASE contents = "white-white" -> "White and White"
      [] contents = "red-red" -> "Red and Red"
      [] contents = "red-white" -> "Red and White"

\* C1: whenever generatePuzzleConfiguration has returned, the contents of the
\* three boxes are the three kinds 'white-white', 'red-red', 'red-white', each
\* once.
C1_ContentsArePermutation ==
    Returned =>
        \A kind \in {"white-white", "red-red", "red-white"} :
            Cardinality({i \in Slots : boxes[i].contents = kind}) = 1

\* A randomized attempt returned contents in an order other than BOX_CONTENTS.
C1_Witness ==
    /\ Returned
    /\ ~usedFallback
    /\ boxes[1].contents = "red-white"
    /\ boxes[2].contents = "white-white"
    /\ boxes[3].contents = "red-red"

\* C2: whenever generatePuzzleConfiguration has returned, the labels of the
\* three boxes are the three labels 'White and White', 'Red and Red',
\* 'Red and White', each once.
C2_LabelsArePermutation ==
    Returned =>
        \A label \in {"White and White", "Red and Red", "Red and White"} :
            Cardinality({i \in Slots : boxes[i].label = label}) = 1

\* A randomized attempt returned labels in an order other than BOX_LABELS.
C2_Witness ==
    /\ Returned
    /\ ~usedFallback
    /\ boxes[1].label = "Red and White"
    /\ boxes[2].label = "White and White"
    /\ boxes[3].label = "Red and Red"

\* C3: whenever generatePuzzleConfiguration has returned, every box is
\* mislabeled: its label differs from getCorrectLabelForBox(box).
C3_EveryBoxMislabeled ==
    Returned => \A i \in Slots : boxes[i].label # getCorrectLabelForBox(boxes[i])

\* A randomized attempt returned the mislabeling other than the fallback's for
\* the contents in BOX_CONTENTS order.
C3_Witness ==
    /\ Returned
    /\ ~usedFallback
    /\ boxes[1].contents = "white-white" /\ boxes[1].label = "Red and White"
    /\ boxes[2].contents = "red-red"     /\ boxes[2].label = "White and White"
    /\ boxes[3].contents = "red-white"   /\ boxes[3].label = "Red and Red"

\* An attempt of the running generation has just assigned a content and a
\* label to every box.
AttemptSucceeded ==
    /\ ~usedFallback
    /\ \A i \in Slots : boxes[i].contents # "" /\ boxes[i].label # ""

\* C4: generatePuzzleConfiguration terminates: it never has more than
\* MAX_ATTEMPTS failed attempts behind it and makes an attempt only with fewer
\* than MAX_ATTEMPTS behind it, it returns on the attempt that succeeds, it
\* takes the fallback only with MAX_ATTEMPTS failed attempts behind it, and a
\* generation that has begun returns.
C4_GenerationTerminates ==
    /\ [](attempts <= MAX_ATTEMPTS)
    /\ [][(pc = "generating" /\ attempts' = attempts + 1) => attempts < MAX_ATTEMPTS]_vars
    /\ [][(pc = "generating" /\ AttemptSucceeded') => pc' = "idle"]_vars
    /\ [][(pc = "generating" /\ usedFallback') => attempts = MAX_ATTEMPTS]_vars
    /\ (pc = "generating") ~> (pc = "idle")

\* All MAX_ATTEMPTS attempts have failed and the fallback is about to be taken.
C4_Witness ==
    /\ pc = "generating"
    /\ attempts = MAX_ATTEMPTS
    /\ ~usedFallback

\* The configuration setFallbackConfiguration writes, written out.
FallbackWritten ==
    /\ boxes[1].contents = "white-white" /\ boxes[1].label = "Red and Red"
    /\ boxes[2].contents = "red-red"     /\ boxes[2].label = "Red and White"
    /\ boxes[3].contents = "red-white"   /\ boxes[3].label = "White and White"

\* C5: when every randomized attempt has failed, generation still returns; the
\* configuration is then the hardcoded fallback in all three boxes, with
\* distinct contents, distinct labels and every box mislabeled.
C5_FallbackIsValid ==
    (pc # "generating" /\ usedFallback) =>
        /\ Returned
        /\ FallbackWritten
        /\ \A i, j \in Slots : i # j =>
              /\ boxes[i].contents # boxes[j].contents
              /\ boxes[i].label # boxes[j].label
        /\ \A i \in Slots :
              /\ boxes[i].contents \in Range(BOX_CONTENTS)
              /\ boxes[i].label \in Range(BOX_LABELS)
              /\ boxes[i].label # TrueLabelOf(boxes[i].contents)

\* The fallback has been taken and the player is looking at its boxes.
C5_Witness ==
    /\ Returned
    /\ usedFallback
    /\ hasCheckedBox

\* The result panel shows an evaluation of the current boxes.
Evaluated == results # NoResults

\* C6: getCorrectLabelForBox maps 'white-white' to 'White and White', 'red-red'
\* to 'Red and Red' and 'red-white' to 'Red and White': in every evaluation the
\* correct label recorded for a box is the one named by its contents alone,
\* whatever label the box displays, and the three correct labels are the three
\* labels, each once.
C6_CorrectLabelLookup ==
    Evaluated =>
        /\ \A i \in Slots :
              LET correctLabel == results.details[i].correctLabel
              IN  /\ boxes[i].contents = "white-white" => correctLabel = "White and White"
                  /\ boxes[i].contents = "red-red" => correctLabel = "Red and Red"
                  /\ boxes[i].contents = "red-white" => correctLabel = "Red and White"
                  /\ correctLabel \in Range(BOX_LABELS)
        /\ \A i, j \in Slots :
              i # j => results.details[i].correctLabel # results.details[j].correctLabel

\* An evaluation of a box that holds 'red-white' and displays 'Red and Red'.
C6_Witness ==
    /\ Evaluated
    /\ boxes[1].contents = "red-white"
    /\ boxes[1].label = "Red and Red"
    /\ results.details[1].correctLabel = "Red and White"

\* The guess recorded in the evaluation for the box in slot i.
Guess(i) == results.details[i].userSelection

\* C7: an evaluation of the guess set that gives each box the true label of its
\* contents has score 3 out of 3 and isCorrect = true for every box.
C7_TrueGuessScoresThree ==
    (Evaluated /\ \A i \in Slots : Guess(i) = TrueLabelOf(boxes[i].contents)) =>
        /\ results.correct = 3
        /\ results.total = 3
        /\ \A i \in Slots : results.details[i].isCorrect

\* The true mapping has been submitted for a randomized configuration.
C7_Witness ==
    /\ Evaluated
    /\ ~usedFallback
    /\ \A i \in Slots : Guess(i) = TrueLabelOf(boxes[i].contents)

\* The guess set is the true mapping with the guesses of boxes a and b swapped.
SwappedGuess(a, b) ==
    /\ a # b
    /\ Guess(a) = TrueLabelOf(boxes[b].contents)
    /\ Guess(b) = TrueLabelOf(boxes[a].contents)
    /\ \A c \in Slots \ {a, b} : Guess(c) = TrueLabelOf(boxes[c].contents)

\* C8: an evaluation of the true mapping with the guesses of two boxes swapped
\* has score exactly 1, the untouched box being the only match.
C8_SwappedGuessScoresOne ==
    \A a, b \in Slots :
        (Evaluated /\ SwappedGuess(a, b)) =>
            /\ results.correct = 1
            /\ \A c \in Slots : results.details[c].isCorrect <=> c \notin {a, b}

\* The guesses of the first and the third box have been swapped and submitted.
C8_Witness ==
    /\ Evaluated
    /\ SwappedGuess(1, 3)

\* C9: an evaluation invoked with an incomplete guess set yields no score: no
\* result is ever computed from a guess set with an empty selection.
C9_IncompleteGuessRejected ==
    Evaluated => \A i \in Slots : Guess(i) # ""

\* C10: checkAnswers can run only if all three userLabelSelections are
\* non-empty.
C10_SubmitBlockedUntilComplete ==
    (ENABLED checkAnswers) =>
        \A id \in Range(BOX_IDS) : userLabelSelections[id] # ""

\* C11: single peek.  Once hasCheckedBox is true, no step other than the start
\* of a Reset Puzzle / Play Again changes selectedBox, hasCheckedBox or the
\* marble shown: a further selectMatchbox, on any box, has no effect, so at
\* most one selectMatchbox takes effect per generation.
C11_SinglePeek ==
    [][(hasCheckedBox /\ pc' # "generating") =>
          /\ hasCheckedBox'
          /\ selectedBox' = selectedBox
          /\ revealedMarble' = revealedMarble]_vars

\* The second box has been checked and its marble is shown; the check buttons
\* of the other boxes can still be called.
C11_Witness ==
    /\ Returned
    /\ hasCheckedBox
    /\ selectedBox = 2
    /\ revealedMarble \in {"white", "red"}
    /\ \A i \in Slots : ENABLED selectMatchbox(i)

\* The result panel shows the evaluation of the selections as they are now.
EvaluatedCurrentSelections ==
    /\ Evaluated
    /\ \A i \in Slots : Guess(i) = userLabelSelections[BOX_IDS[i]]

\* C15: evaluation has no side effects.  A checkAnswers step leaves the boxes,
\* userLabelSelections, selectedBox and hasCheckedBox unchanged, and while the
\* selections are those just evaluated a further submission computes the
\* result already shown.
C15_EvaluationHasNoSideEffects ==
    /\ [][checkAnswers =>
             UNCHANGED <<boxes, userLabelSelections, selectedBox, hasCheckedBox>>]_vars
    /\ [](EvaluatedCurrentSelections =>
             calculateResults(boxes, userLabelSelections) = results)

\* Answers have been submitted, nothing has been changed since, and they can
\* be submitted again.
C15_Witness ==
    /\ EvaluatedCurrentSelections
    /\ hasCheckedBox
    /\ results.correct = 1
    /\ ENABLED checkAnswers

\* C16: between the return of generatePuzzleConfiguration and the next Reset
\* Puzzle / Play Again no step (checking a box, changing a label selection,
\* submitting answers) changes a box's contents or label.
C16_ConfigurationNotMutated ==
    [][(Returned /\ pc' # "generating") => boxes' = boxes]_vars

\* A box has been checked, labels have been selected and answers submitted.
C16_Witness ==
    /\ Returned
    /\ hasCheckedBox
    /\ Evaluated
    /\ \E id \in Range(BOX_IDS) : userLabelSelections[id] = ""

\* C19: the dropdown filtering prevents duplicate guesses.  The non-empty values
\* of userLabelSelections are pairwise distinct, so a complete set of
\* selections is a bijection onto the three labels.
C19_SelectionsAreDistinct ==
    /\ \A a, b \in Range(BOX_IDS) :
          (a # b /\ userLabelSelections[a] # "") =>
              userLabelSelections[a] # userLabelSelections[b]
    /\ (\A id \in Range(BOX_IDS) : userLabelSelections[id] # "") =>
          {userLabelSelections[id] : id \in Range(BOX_IDS)} = Range(BOX_LABELS)

\* All three dropdowns hold a label, the last one chosen from a single
\* remaining option.
C19_Witness ==
    /\ Returned
    /\ \A id \in Range(BOX_IDS) : userLabelSelections[id] # ""
    /\ \A id \in Range(BOX_IDS) : dropdownOptions[id] = {userLabelSelections[id]}

\* The step on which the running handler named h finishes: generation has
\* returned and the board has been rebuilt.
Completes(h) == pc = "generating" /\ pc' = "idle" /\ handler = h

\* C12: Reset Puzzle restarts the current puzzle: when resetPuzzle completes
\* every box has the contents and the label it had before the reset.
C12_ResetPuzzleKeepsConfiguration ==
    [][Completes("resetPuzzle") => boxes' = boxesBefore]_vars

\* C13: Play Again starts a puzzle with a different configuration: when
\* resetGame completes, the assignment of (contents, label) to the boxes
\* differs from the one in place before Play Again was clicked.
C13_PlayAgainChangesConfiguration ==
    [][Completes("resetGame") => boxes' # boxesBefore]_vars

\* The labels on the boxes, in slot order.
LabelsOf(bs) == [i \in DOMAIN bs |-> bs[i].label]

\* The label assignments that mislabel every box, for the contents in the
\* order sc.
MislabelingsOf(sc) ==
    {l \in Shuffles(BOX_LABELS) : \A i \in DOMAIN sc : l[i] # TrueLabelOf(sc[i])}

\* The orders of the shuffled labels with which an attempt that drew the
\* contents in the order sc ends in the label assignment l.
LabelOrdersLeadingTo(sc, l) ==
    {try.labels : try \in {o \in attemptOutcomes :
                              /\ o.contents = sc
                              /\ o.result.ok
                              /\ LabelsOf(o.result.boxes) = l}}

\* The orders of the shuffled labels with which that attempt fails.
FailingLabelOrders(sc) ==
    {try.labels : try \in {o \in attemptOutcomes : o.contents = sc /\ ~o.result.ok}}

\* Generation has returned from a successful attempt.
ReturnedFromAttempt ==
    /\ Returned
    /\ ~usedFallback

\* C17, as stated: for the content order of the attempt that returned, the same
\* number of the 6 label orders leads to each of the two mislabelings.
C17_RetryLoopIsUniform ==
    ReturnedFromAttempt =>
        \A a, b \in MislabelingsOf(attemptContents) :
            Cardinality(LabelOrdersLeadingTo(attemptContents, a))
                = Cardinality(LabelOrdersLeadingTo(attemptContents, b))

\* C17, amended: for the content order of the attempt that returned there are
\* two mislabelings; of the 6 label orders, 3 lead to the one that gives the
\* first box the true label of the third box's contents, 1 leads to the other,
\* and 2 make the attempt fail.  The configuration returned is a mislabeling
\* the drawn label order leads to.
C17_RetryLoopFavoursOneMislabeling ==
    ReturnedFromAttempt =>
        /\ Cardinality(MislabelingsOf(attemptContents)) = 2
        /\ \A l \in MislabelingsOf(attemptContents) :
              Cardinality(LabelOrdersLeadingTo(attemptContents, l))
                  = IF l[1] = TrueLabelOf(attemptContents[3]) THEN 3 ELSE 1
        /\ Cardinality(FailingLabelOrders(attemptContents)) = 2
        /\ LabelsOf(boxes) \in MislabelingsOf(attemptContents)
        /\ attemptLabels \in LabelOrdersLeadingTo(attemptContents, LabelsOf(boxes))

\* An attempt returned the mislabeling that a single label order leads to.
C17_Witness ==
    /\ ReturnedFromAttempt
    /\ Cardinality(LabelOrdersLeadingTo(attemptContents, LabelsOf(boxes))) = 1

\* GameState.boxes are as the latest attempt left them.
AttemptVisible ==
    /\ attemptContents # <<>>
    /\ ~usedFallback

\* The loop of the latest attempt got to slot i: every earlier box received a
\* label.
ReachedSlot(i) == \A j \in 1..(i - 1) : boxes[j].label # ""

\* The positions of attemptLabels whose label no earlier box carries and which
\* does not truthfully describe the contents drawn for slot i.
FittingPositions(i) ==
    {k \in DOMAIN attemptLabels :
        /\ \A j \in 1..(i - 1) : boxes[j].label # attemptLabels[k]
        /\ attemptLabels[k] # TrueLabelOf(attemptContents[i])}

\* C18: within one attempt every box the loop gets to receives its content (the
\* content assignment never fails) and the first label of the shuffled label
\* sequence that is not yet used and does not truthfully describe that content;
\* a box with no such label is left without a label, the boxes after it are
\* not assigned, and the attempt fails exactly when there is such a box.
C18_FirstFitLabelAssignment ==
    AttemptVisible =>
        /\ \A i \in Slots :
              IF ReachedSlot(i)
              THEN /\ boxes[i].contents = attemptContents[i]
                   /\ boxes[i].label =
                         IF FittingPositions(i) = {} THEN ""
                         ELSE attemptLabels[Min(FittingPositions(i))]
              ELSE /\ boxes[i].contents = ""
                   /\ boxes[i].label = ""
        /\ (pc = "generating") <=>
              \E i \in Slots : ReachedSlot(i) /\ FittingPositions(i) = {}

\* An attempt has failed at the third box: its content is assigned and no
\* label fits, with a later label order position taken by the second box.
C18_Witness ==
    /\ AttemptVisible
    /\ pc = "generating"
    /\ boxes[3].contents # ""
    /\ boxes[3].label = ""
    /\ boxes[2].label = attemptLabels[1]

\* resetPuzzle or resetGame has completed and nothing has been done since.
\* (Until a box is checked the label selection interface and the result panel
\* are hidden, so checking a box is the only thing that can be done.)
FreshAfterReset ==
    /\ Returned
    /\ handler \in {"resetPuzzle", "resetGame"}
    /\ ~labelSelectionDisplayed

\* selectMatchbox on the box in slot i taking effect.
selectMatchboxTakesEffect(i) ==
    /\ selectMatchbox(i)
    /\ hasCheckedBox'
    /\ selectedBox' = i
    /\ revealedMarble' # ""

\* C20: when resetPuzzle or resetGame completes the session is in the fresh
\* state: hasCheckedBox is false, selectedBox is null, the three
\* userLabelSelections are empty and the configuration is valid; checking any
\* box then takes effect, and once one has, no further selectMatchbox does
\* until the next reset.
C20_FreshStateAfterReset ==
    /\ [][(Completes("resetPuzzle") \/ Completes("resetGame")) =>
             /\ ~hasCheckedBox'
             /\ selectedBox' = 0
             /\ \A id \in Range(BOX_IDS) : userLabelSelections'[id] = ""
             /\ {boxes'[i].contents : i \in Slots} = Range(BOX_CONTENTS)
             /\ {boxes'[i].label : i \in Slots} = Range(BOX_LABELS)
             /\ \A i \in Slots : boxes'[i].label # TrueLabelOf(boxes'[i].contents)
             /\ ~labelSelectionDisplayed']_vars
    /\ [](FreshAfterReset =>
             /\ ~hasCheckedBox
             /\ \A i \in Slots : ENABLED selectMatchboxTakesEffect(i))
    /\ [][(Returned /\ handler \in {"resetPuzzle", "resetGame"}
              /\ hasCheckedBox /\ pc' = "idle") =>
             /\ hasCheckedBox'
             /\ selectedBox' = selectedBox
             /\ revealedMarble' = revealedMarble]_vars

\* Play Again has completed after a game in which answers were submitted: the
\* board is fresh, and the submit button is as the previous game left it.
C20_Witness ==
    /\ FreshAfterReset
    /\ handler = "resetGame"
    /\ ~submitDisabled
    /\ \A i \in Slots : ENABLED selectMatchboxTakesEffect(i)

\* The two marbles in a box of each kind of contents, written out.
MarblesOf(contents) ==
    CASE contents = "white-white" -> {"white"}
      [] contents = "red-red" -> {"red"}
      [] contents = "red-white" -> {"red", "white"}
      [] OTHER -> {}

\* C21: while a box is checked the marble shown is one of the two marbles of
\* the selected box's contents: white for 'white-white', red for 'red-red',
\* red or white for 'red-white'; and checking a box can show either marble of
\* a 'red-white' box.
C21_RevealedMarbleIsFromContents ==
    /\ [](hasCheckedBox =>
             /\ selectedBox \in Slots
             /\ revealedMarble \in MarblesOf(boxes[selectedBox].contents))
    /\ [][(~hasCheckedBox /\ hasCheckedBox') =>
             revealedMarble' \in MarblesOf(boxes[selectedBox'].contents)]_vars
    /\ [](( Returned /\ ~hasCheckedBox) =>
             \A i \in Slots : \A m \in MarblesOf(boxes[i].contents) :
                 ENABLED (selectMatchbox(i) /\ revealedMarble' = m))

\* The 'red-white' box, labelled 'Red and Red', has been checked and shows
\* its white marble.
C21_Witness ==
    /\ Returned
    /\ hasCheckedBox
    /\ boxes[selectedBox].contents = "red-white"
    /\ boxes[selectedBox].label = "Red and Red"
    /\ revealedMarble = "white"

\* The configurations that satisfy the three invariants: the contents in any
\* order, the labels in any order, no box with the true label of its contents.
ValidConfigurations ==
    {bs \in {[i \in Slots |-> [id |-> BOX_IDS[i], contents |-> c[i], label |-> l[i]]] :
                c \in [Slots -> Range(BOX_CONTENTS)], l \in [Slots -> Range(BOX_LABELS)]} :
        /\ {bs[i].contents : i \in Slots} = Range(BOX_CONTENTS)
        /\ {bs[i].label : i \in Slots} = Range(BOX_LABELS)
        /\ \A i \in Slots : bs[i].label # TrueLabelOf(bs[i].contents)}

\* generatePuzzleConfiguration is about to make an attempt.
AboutToAttempt ==
    /\ pc = "generating"
    /\ attemptsRemain(attempts)

\* C22: there are 12 valid configurations, and each of them is a possible
\* result of every attempt generatePuzzleConfiguration makes: the attempt can
\* return with exactly that configuration in the boxes, the fallback not used.
C22_AllValidConfigurationsReachable ==
    /\ Cardinality(ValidConfigurations) = 12
    /\ AboutToAttempt =>
          \A c \in ValidConfigurations :
              ENABLED (generateAttempt /\ boxes' = c /\ pc' = "idle" /\ ~usedFallback')

\* Generation has returned, without the fallback, a valid configuration that
\* is not the fallback's and has the 'red-white' box first.
C22_Witness ==
    /\ ReturnedFromAttempt
    /\ boxes \in ValidConfigurations
    /\ boxes[1].contents = "red-white"
    /\ boxes[1].label = "White and White"
    /\ boxes # setFallbackConfiguration(boxes)

\* The generator's test and the evaluator's lookup agree on contents and label.
MatchAgreesWithLookup(contents, label) ==
    checkContentsMatchLabel([contents |-> contents, label |-> label])
        <=> (label = getCorrectLabelForBox([contents |-> contents]))

\* C23: the two notions of 'label truthfully describes contents' agree: on each
\* of the 9 (contents, label) pairs, and on the contents of every box of
\* GameState.boxes with every label, checkContentsMatchLabel is true exactly
\* when the label is the one getCorrectLabelForBox looks up.
C23_MatchAgreesWithLookup ==
    /\ \A contents \in Range(BOX_CONTENTS), label \in Range(BOX_LABELS) :
          MatchAgreesWithLookup(contents, label)
    /\ \A i \in Slots : \A label \in Range(BOX_LABELS) \cup {boxes[i].label} :
          MatchAgreesWithLookup(boxes[i].contents, label)

\* The generator has tested the labels with checkContentsMatchLabel, and the
\* evaluator has looked the correct labels up and found one selection right.
C23_Witness ==
    /\ ReturnedFromAttempt
    /\ Evaluated
    /\ results.details[1].isCorrect
    /\ ~results.details[2].isCorrect
    /\ \A i \in Slots : ~checkContentsMatchLabel(boxes[i])

\* C24: whenever a user action can be handled (no handler is running and
\* initializeGame has run) every box holds one of the three content kinds and
\* one of the three labels, and a result shown was computed with a non-empty
\* correct label for every box and counts no empty selection as correct.
C24_EmptyConfigurationNotObservable ==
    Returned =>
        /\ \A i \in Slots :
              /\ boxes[i].contents \in Range(BOX_CONTENTS)
              /\ boxes[i].label \in Range(BOX_LABELS)
        /\ Evaluated =>
              \A i \in Slots :
                  /\ results.details[i].correctLabel \in Range(BOX_LABELS)
                  /\ results.details[i].actualContents \in Range(BOX_CONTENTS)
                  /\ Guess(i) = "" => ~results.details[i].isCorrect

\* After a Reset Puzzle, which emptied the boxes, and a generation with failed
\* attempts behind it, answers with an empty selection have been evaluated.
C24_Witness ==
    /\ Returned
    /\ handler = "resetPuzzle"
    /\ attemptLabels # <<>>
    /\ Evaluated
    /\ Guess(3) = ""
    /\ results.correct = 0
    /\ usedFallback

----------------------------------------------------------------------------
(* The evaluator as a function: calculateResults applied to every             *)
(* configuration the generator can return and every guess set over the three *)
(* labels and the empty selection, duplicates included.                       *)

\* The attempts after which generatePuzzleConfiguration returns.
SuccessfulAttempts == {try \in attemptOutcomes : try.result.ok}

\* All guess sets: each box's selection is a label or ''.
GuessSets == [Range(BOX_IDS) -> Range(BOX_LABELS) \cup {""}]

EvalInit ==
    /\ \E try \in SuccessfulAttempts :
          /\ boxes = try.result.boxes
          /\ attemptContents = try.contents
          /\ attemptLabels = try.labels
    /\ handler = "initializeGame"
    /\ boxesBefore = NoBoxes
    /\ userLabelSelections \in GuessSets
    /\ selectedBox = 1
    /\ hasCheckedBox = TRUE
    /\ dropdownOptions = updateDropdownOptions(userLabelSelections)
    /\ submitDisabled = FALSE
    /\ labelSelectionDisplayed = TRUE
    /\ resultDisplayed = FALSE
    /\ results = NoResults
    /\ revealedMarble \in getMarbleVisualization(boxes[1].contents)
    /\ pc = "idle"
    /\ attempts = 0
    /\ usedFallback = FALSE

EvalSpec == EvalInit /\ [][checkAnswers]_vars

\* C14: calculateResults returns total = 3 and one detail record per box in
\* slot order, carrying the box's selection and contents, with isCorrect =
\* (userSelection is the true label of the box's contents), and correct is the
\* number of records with isCorrect = true.
C14_ResultsRecord ==
    Evaluated =>
        /\ results.total = 3
        /\ DOMAIN results.details = Slots
        /\ \A i \in Slots :
              LET d == results.details[i]
              IN  /\ d.boxId = BOX_IDS[i]
                  /\ d.boxNumber = i
                  /\ d.userSelection = userLabelSelections[BOX_IDS[i]]
                  /\ d.actualContents = boxes[i].contents
                  /\ d.correctLabel = TrueLabelOf(boxes[i].contents)
                  /\ d.isCorrect <=> (d.userSelection = TrueLabelOf(boxes[i].contents))
        /\ results.correct = Cardinality({i \in Slots : results.details[i].isCorrect})
        /\ results.correct \in 0..3

\* An evaluation of a guess set with a repeated label, two of three correct.
C14_Witness ==
    /\ Evaluated
    /\ results.correct = 2
    /\ ~results.details[2].isCorrect

====
